---- MODULE Spec2Model ----
(***************************************************************************)
(* Model of NFLGameStats (src/nfl_Nversion/nfl_Nversion.py): the value     *)
(* cleaner, the team-stat / metadata extractors, the dual-perspective      *)
(* record builder and the weekly batch loop.                               *)
(*                                                                         *)
(* Python values are records [t, n, s, e]: t is the kind ("int", "float",  *)
(* "str", "none", "nan", "obj", "series", "raise"), n the number, s the    *)
(* text as a sequence of one-character strings, e the elements of a        *)
(* pandas Series.  "obj" is an object float() cannot convert (a dict);     *)
(* "raise" is the outcome of a call that raised.                           *)
(***************************************************************************)
EXTENDS Integers, Sequences, FiniteSets, TLC

\* ------------------------------------------------------------------ bounds
MaxGames == 2
MaxWeek == 4
MaxPad == 1

\* ------------------------------------------------------------------ values
V(t, n, s, e) == [t |-> t, n |-> n, s |-> s, e |-> e]
IntV(k) == V("int", k, <<>>, <<>>)
FloatV(k) == V("float", k, <<>>, <<>>)
StrV(cs) == V("str", 0, cs, <<>>)
NoneV == V("none", 0, <<>>, <<>>)
NaNV == V("nan", 0, <<>>, <<>>)
ObjV == V("obj", 0, <<>>, <<>>)
SeriesV(elems) == V("series", 0, <<>>, elems)
RaiseV == V("raise", 0, <<>>, <<>>)

IsNumber(v) == v.t \in {"int", "float"}

\* Python's == on scalars: 0 == 0.0 is True, a str never equals a number
PyEq(a, b) ==
    IF IsNumber(a) /\ IsNumber(b) THEN a.n = b.n ELSE a = b

Whitespace == {" ", "\t", "\n"}

RECURSIVE lstrip(_)
lstrip(cs) ==
    IF cs = <<>> THEN <<>>
    ELSE IF Head(cs) \in Whitespace THEN lstrip(Tail(cs)) ELSE cs

RECURSIVE rstrip(_)
rstrip(cs) ==
    IF cs = <<>> THEN <<>>
    ELSE IF cs[Len(cs)] \in Whitespace THEN rstrip(SubSeq(cs, 1, Len(cs) - 1)) ELSE cs

\* str.strip()
strip(cs) == rstrip(lstrip(cs))

\* the literal markers of  value in [None, 'N/A', 'None', '']
MissingMarkers == { <<"N", "/", "A">>, <<"N", "o", "n", "e">>, <<>> }

\* pd.isna on a scalar
isna(v) == v.t \in {"none", "nan"}

\* float(value) for a non-string value
to_float(v) == IF IsNumber(v) THEN FloatV(v.n) ELSE RaiseV

\* NFLGameStats.clean_value
clean_value(value, expected_type) ==
    LET v == IF value.t = "series"
             THEN (IF value.e # <<>> THEN value.e[1] ELSE NoneV)
             ELSE value
    IN  IF isna(v) \/ (v.t = "str" /\ v.s \in MissingMarkers)
        THEN (IF expected_type = "string" THEN StrV(<<"0">>) ELSE IntV(0))
        ELSE IF v.t = "str"
             THEN (IF strip(v.s) # <<>> THEN StrV(strip(v.s)) ELSE StrV(<<"0">>))
             ELSE to_float(v)

\* ------------------------------------------------------------------- dates
\* a datetime is the number of days since 2024-01-01
IsLeap(y) == (y % 4 = 0 /\ y % 100 # 0) \/ y % 400 = 0

DaysInMonth(y, m) ==
    IF m = 2 THEN (IF IsLeap(y) THEN 29 ELSE 28)
    ELSE IF m \in {4, 6, 9, 11} THEN 30 ELSE 31

RECURSIVE YMD(_, _, _)
YMD(y, m, rest) ==
    IF rest < DaysInMonth(y, m) THEN [y |-> y, m |-> m, d |-> rest + 1]
    ELSE IF m = 12 THEN YMD(y + 1, 1, rest - DaysInMonth(y, m))
         ELSE YMD(y, m + 1, rest - DaysInMonth(y, m))

DateOf(ord) == YMD(2024, 1, ord)

\* datetime(2024, 9, 5) as a day number
RECURSIVE DaysBefore(_, _)
DaysBefore(y, m) == IF m = 1 THEN 0 ELSE DaysBefore(y, m - 1) + DaysInMonth(y, m - 1)

SeasonStart == DaysBefore(2024, 9) + (5 - 1)

Digits == <<"0", "1", "2", "3", "4", "5", "6", "7", "8", "9">>

RECURSIVE ZeroPad(_, _)
ZeroPad(k, width) ==
    IF width = 0 THEN <<>> ELSE Append(ZeroPad(k \div 10, width - 1), Digits[(k % 10) + 1])

\* datetime.strftime('%Y-%m-%d')
strftime(ord) ==
    LET c == DateOf(ord)
    IN  ZeroPad(c.y, 4) \o <<"-">> \o ZeroPad(c.m, 2) \o <<"-">> \o ZeroPad(c.d, 2)

\* code point of the characters a date string is made of
Ord(c) ==
    IF c = "-" THEN 45
    ELSE 48 + (CHOOSE k \in 0..9 : Digits[k + 1] = c)

\* Python's  a <= b  on str: lexicographic by code point
RECURSIVE StrLE(_, _)
StrLE(a, b) ==
    IF a = <<>> THEN TRUE
    ELSE IF b = <<>> THEN FALSE
    ELSE IF Ord(Head(a)) < Ord(Head(b)) THEN TRUE
    ELSE IF Ord(Head(a)) > Ord(Head(b)) THEN FALSE
    ELSE StrLE(Tail(a), Tail(b))

\* ------------------------------------------------------------ dictionaries
\* a dict is a function from keys to values; d.update(u)
update(d, u) ==
    [k \in (DOMAIN d) \cup (DOMAIN u) |-> IF k \in DOMAIN u THEN u[k] ELSE d[k]]

\* mapping.get(key, default)
get(d, key, default) == IF key \in DOMAIN d THEN d[key] ELSE default

EmptyDict == [k \in {} |-> NoneV]

\* a dict in which some value is the outcome of a call that raised
AnyRaised(d) == \E k \in DOMAIN d : d[k] = RaiseV

NumericStatKeys ==
    { "rush_att", "rush_yds", "rush_tds", "pass_cmp", "pass_att", "pass_yds",
      "pass_tds", "pass_int", "passer_rating", "net_pass_yds", "total_yds",
      "times_sacked", "yds_sacked_for", "fumbles", "fumbles_lost", "turnovers",
      "penalties", "penalty_yds", "first_downs", "third_down_conv",
      "third_down_att", "third_down_conv_pct", "fourth_down_conv",
      "fourth_down_att", "fourth_down_conv_pct" }

StatKeys == NumericStatKeys \cup {"time_of_possession"}

StatDefault(k) ==
    IF k = "time_of_possession" THEN StrV(<<"0", "0", ":", "0", "0">>) ELSE IntV(0)

\* NFLGameStats.extract_team_stats
extract_team_stats(team_data, team_name) ==
    [k \in StatKeys \cup {"team"} |->
        IF k = "team" THEN team_name ELSE get(team_data, k, StatDefault(k))]

NumericMetaKeys ==
    { "tm_spread", "opp_spread", "total", "attendance", "duration",
      "temperature", "humidity_pct", "wind_speed" }

StringMetaKeys == { "roof_type", "surface_type" }

MetaKeys == NumericMetaKeys \cup StringMetaKeys

\* NFLGameStats.extract_game_metadata; a raised clean_value shows as RaiseV
extract_game_metadata(metadata) ==
    [k \in MetaKeys |->
        IF k \in StringMetaKeys
        THEN clean_value(get(metadata, k, StrV(<<"0">>)), "string")
        ELSE clean_value(get(metadata, k, IntV(0)), "unset")]

\* NFLGameStats.clean_stats; a raised clean_value shows as RaiseV
clean_stats(stats) == [k \in DOMAIN stats |-> clean_value(stats[k], "unset")]

\* variant: the raw rows are taken in the order they arrive
resolve_rows_as_given(rows, team1_name) == <<1, 2>>

\* the row order chosen by extract_game_statistics: <<index of team1's row,
\* index of team2's row>> (0-based iloc i is rows[i + 1])
resolve_rows(rows, team1_name) ==
    IF PyEq(rows[1]["market"], team1_name) THEN <<1, 2>> ELSE <<2, 1>>

\* outcome of extract_game_statistics: exc is TRUE when it raised; none is
\* TRUE for the return  None, None, {}
Extracted(exc, none, t1, t2, md) ==
    [exc |-> exc, none |-> none, team1_stats |-> t1, team2_stats |-> t2, metadata |-> md]

ExtractNone == Extracted(FALSE, TRUE, EmptyDict, EmptyDict, EmptyDict)
ExtractRaised == Extracted(TRUE, TRUE, EmptyDict, EmptyDict, EmptyDict)

\* NFLGameStats.extract_game_statistics; resp is what the two source calls
\* answer for the game's url: resp.md and resp.st are [ok, ...], ok = FALSE
\* when the call raises
extract_game_statistics(resp, team1_name, team2_name) ==
    IF ~resp.md.ok THEN ExtractNone
    ELSE IF ~resp.st.ok THEN ExtractNone
    ELSE IF "market" \in resp.st.columns
    THEN IF Len(resp.st.rows) < 2
         THEN ExtractRaised      \* iloc[0] or iloc[1]: IndexError
         ELSE LET ix == resolve_rows(resp.st.rows, team1_name)
                  t1 == extract_team_stats(resp.st.rows[ix[1]], team1_name)
                  t2 == extract_team_stats(resp.st.rows[ix[2]], team2_name)
                  md == extract_game_metadata(resp.md.data)
              IN  IF AnyRaised(md) THEN ExtractRaised
                  ELSE Extracted(FALSE, FALSE, t1, t2, md)
    ELSE ExtractNone

\* variant: only 'A' counts as away, a neutral site is treated as home
spread_assignment_neutral_home(tm_location, metadata) ==
    IF tm_location # StrV(<<"A">>)
    THEN [ m1 |-> [tm_spread |-> metadata["tm_spread"], opp_spread |-> metadata["opp_spread"]],
           m2 |-> [tm_spread |-> metadata["opp_spread"], opp_spread |-> metadata["tm_spread"]] ]
    ELSE [ m1 |-> [tm_spread |-> metadata["opp_spread"], opp_spread |-> metadata["tm_spread"]],
           m2 |-> [tm_spread |-> metadata["tm_spread"], opp_spread |-> metadata["opp_spread"]] ]

\* lines 173-182 of process_stats: the spreads of the two perspectives
spread_assignment(tm_location, metadata) ==
    IF tm_location = StrV(<<"H">>)
    THEN [ m1 |-> [tm_spread |-> metadata["tm_spread"], opp_spread |-> metadata["opp_spread"]],
           m2 |-> [tm_spread |-> metadata["opp_spread"], opp_spread |-> metadata["tm_spread"]] ]
    ELSE [ m1 |-> [tm_spread |-> metadata["opp_spread"], opp_spread |-> metadata["tm_spread"]],
           m2 |-> [tm_spread |-> metadata["tm_spread"], opp_spread |-> metadata["opp_spread"]] ]

\* lines 184-189: the game-relative fields of the primary record
primary_fields(game) ==
    [ tm_location |-> game["tm_location"], opp_location |-> game["opp_location"],
      tm_score |-> game["tm_score"], opp_score |-> game["opp_score"] ]

\* variant: the mirrored record keeps the scores of the primary record
mirrored_fields_same_scores(game) ==
    [ tm_location |-> game["opp_location"], opp_location |-> game["tm_location"],
      tm_score |-> game["tm_score"], opp_score |-> game["opp_score"] ]

\* lines 191-196: the game-relative fields of the mirrored record
mirrored_fields(game) ==
    [ tm_location |-> game["opp_location"], opp_location |-> game["tm_location"],
      tm_score |-> game["opp_score"], opp_score |-> game["tm_score"] ]

\* variant: the primary record is appended before the second team is cleaned
process_stats_append_early(list, game, team1_stats, team2_stats, metadata) ==
    LET sp == spread_assignment(game["tm_location"], metadata)
        metadata_team1 == update(update(metadata, sp.m1), primary_fields(game))
        metadata_team2 == update(update(metadata, sp.m2), mirrored_fields(game))
        c1 == clean_stats(team1_stats)
        c2 == clean_stats(team2_stats)
        r1 == update(update(c1, metadata_team1),
                     [team |-> game["tm_name"], opponent |-> game["opp_name"]])
        r2 == update(update(c2, metadata_team2),
                     [team |-> game["opp_name"], opponent |-> game["tm_name"]])
    IN  IF AnyRaised(c1) THEN [list |-> list, exc |-> TRUE]
        ELSE IF AnyRaised(c2) THEN [list |-> Append(list, r1), exc |-> TRUE]
        ELSE [list |-> Append(Append(list, r1), r2), exc |-> FALSE]

\* NFLGameStats.process_stats: the new team_stats_list, and whether it raised
process_stats(list, game, team1_stats, team2_stats, metadata) ==
    LET sp == spread_assignment(game["tm_location"], metadata)
        metadata_team1 == update(update(metadata, sp.m1), primary_fields(game))
        metadata_team2 == update(update(metadata, sp.m2), mirrored_fields(game))
        c1 == clean_stats(team1_stats)
        c2 == clean_stats(team2_stats)
        r1 == update(update(c1, metadata_team1),
                     [team |-> game["tm_name"], opponent |-> game["opp_name"]])
        r2 == update(update(c2, metadata_team2),
                     [team |-> game["opp_name"], opponent |-> game["tm_name"]])
    IN  IF AnyRaised(c1) \/ AnyRaised(c2)
        THEN [list |-> list, exc |-> TRUE]
        ELSE [list |-> Append(Append(list, r1), r2), exc |-> FALSE]

\* NFLGameStats.process_game
process_game(list, game, resp) ==
    LET x == extract_game_statistics(resp, game["tm_name"], game["opp_name"])
    IN  IF x.exc THEN [list |-> list, exc |-> TRUE]
        ELSE IF ~x.none /\ DOMAIN x.team1_stats # {} /\ DOMAIN x.team2_stats # {}
             THEN process_stats(list, game, x.team1_stats, x.team2_stats, x.metadata)
             ELSE [list |-> list, exc |-> FALSE]

\* NFLGameStats.get_week_start_date
get_week_start_date(season_start, week) == season_start + 7 * (week - 1)

\* variant: the end date is excluded
in_week_end_excluded(event_date, start_date, end_date) ==
    /\ StrLE(strftime(start_date), event_date)
    /\ StrLE(event_date, strftime(end_date))
    /\ event_date # strftime(end_date)

\* the row filter of fetch_games (lines 40-41)
in_week(event_date, start_date, end_date) ==
    StrLE(strftime(start_date), event_date) /\ StrLE(event_date, strftime(end_date))

\* the rows of all_games kept in games_in_week, in order
games_in_week_of(all_games, start_date) ==
    LET end_date == start_date + 4
    IN  SelectSeq(all_games, LAMBDA g : in_week(g["event_date"].s, start_date, end_date))

\* NFLGameStats.get_current_week, given the attributes set so far
get_current_week(attrs, season_start, today) ==
    IF "season_start" \notin attrs THEN [exc |-> TRUE, week |-> 0]
    ELSE [exc |-> FALSE, week |-> ((today - season_start) \div 7) + 1]

\* --------------------------------------------------------- bounded inputs
TeamA == StrV(<<"A">>)
TeamB == StrV(<<"B">>)
TeamX == StrV(<<"X">>)
TeamY == StrV(<<"Y">>)

H == StrV(<<"H">>)
A == StrV(<<"A">>)
N == StrV(<<"N">>)

Profile(tm, opp, tl, ol, ts, os) ==
    [ tm_name |-> tm, opp_name |-> opp, tm_location |-> tl, opp_location |-> ol,
      tm_score |-> IntV(ts), opp_score |-> IntV(os) ]

\* who played, where, and the final score: home, away and neutral-site rows
Profiles ==
    { Profile(TeamA, TeamB, H, A, 24, 17),
      Profile(TeamB, TeamA, A, H, 17, 24),
      Profile(TeamA, TeamB, N, N, 20, 20) }

\* days relative to the week's Thursday at which the schedule has games
DateOffsets == { -1, 0, 4, 5 }

\* one row of nflscraPy._gamelogs
GameRow(date, p) ==
    update(p, [ event_date |-> StrV(strftime(date)),
                boxscore_stats_link |-> StrV(<<"u">>) ])

GameRows(start_date) ==
    { GameRow(start_date + o, p) : o \in DateOffsets, p \in Profiles }

RECURSIVE SeqsUpTo(_, _)
SeqsUpTo(S, n) ==
    IF n = 0 THEN { <<>> }
    ELSE LET shorter == SeqsUpTo(S, n - 1)
         IN  shorter \cup { Append(q, x) : q \in { r \in shorter : Len(r) = n - 1 }, x \in S }

\* the season's rows come in date order
Schedules(start_date) ==
    { q \in SeqsUpTo(GameRows(start_date), MaxGames) :
        \A i \in 1..(Len(q) - 1) : StrLE(q[i]["event_date"].s, q[i + 1]["event_date"].s) }

Padded(cs) == <<" ">> \o cs \o <<" ">>

\* a raw statistics row of one team; its rush_att tells the rows apart
StatRow(market, rush_att) ==
    [ market |-> market, rush_att |-> rush_att, pass_yds |-> IntV(250),
      time_of_possession |-> StrV(<<"3", "0", ":", "0", "0">>) ]

RushOf(team) ==
    IF team = TeamA THEN IntV(21) ELSE IF team = TeamB THEN IntV(32) ELSE IntV(43)

Frame(rows) == [ ok |-> TRUE, columns |-> {"market", "rush_att", "pass_yds", "time_of_possession"},
                 rows |-> rows ]

StFail == [ ok |-> FALSE, columns |-> {}, rows |-> <<>> ]

StInOrder(g) == Frame(<< StatRow(g["tm_name"], RushOf(g["tm_name"])),
                         StatRow(g["opp_name"], RushOf(g["opp_name"])) >>)

\* what nflscraPy._gamelog_statistics may answer for game g
StatResponses(g) ==
    { StFail,
      StInOrder(g),
      Frame(<< StatRow(g["opp_name"], RushOf(g["opp_name"])),
               StatRow(g["tm_name"], RushOf(g["tm_name"])) >>),
      Frame(<< StatRow(TeamX, RushOf(TeamX)), StatRow(TeamY, RushOf(TeamY)) >>),
      Frame(<< StatRow(g["tm_name"], RushOf(g["tm_name"])) >>),
      [ ok |-> TRUE, columns |-> {"rush_att"},
        rows |-> << [rush_att |-> IntV(21)], [rush_att |-> IntV(32)] >> ],
      Frame(<< StatRow(g["tm_name"], StrV(Padded(<<"N", "/", "A">>))),
               StatRow(g["opp_name"], NaNV) >>),
      Frame(<< StatRow(g["tm_name"], RushOf(g["tm_name"])),
               StatRow(g["opp_name"], ObjV) >>) }

MdFail == [ ok |-> FALSE, data |-> EmptyDict ]

\* a metadata frame: every column is a Series; absent columns are defaulted
MdGood ==
    [ ok |-> TRUE,
      data |-> [ tm_spread |-> SeriesV(<<FloatV(-3)>>), opp_spread |-> SeriesV(<<FloatV(3)>>),
                 total |-> SeriesV(<<NaNV>>), attendance |-> SeriesV(<<StrV(<<"N", "/", "A">>)>>),
                 duration |-> SeriesV(<<>>), temperature |-> SeriesV(<<IntV(72)>>),
                 roof_type |-> SeriesV(<<StrV(Padded(<<"D", "o", "m", "e">>))>>) ] ]

\* what nflscraPy._gamelog_metadata may answer
MetaResponses ==
    { MdFail,
      MdGood,
      [ ok |-> TRUE,
        data |-> [ tm_spread |-> SeriesV(<<FloatV(-7)>>), opp_spread |-> SeriesV(<<FloatV(7)>>),
                   attendance |-> SeriesV(<<StrV(Padded(<<"N", "/", "A">>))>>),
                   roof_type |-> SeriesV(<<StrV(Padded(<<"N", "o", "n", "e">>))>>) ] ],
      [ ok |-> TRUE,
        data |-> [ tm_spread |-> SeriesV(<<FloatV(-3)>>), opp_spread |-> SeriesV(<<FloatV(3)>>),
                   attendance |-> SeriesV(<<ObjV>>) ] ] }

\* the answers of the two source calls for game g: one of them is varied at a time
Responses(g) ==
    { [md |-> m, st |-> t] : m \in {MdGood}, t \in StatResponses(g) }
    \cup { [md |-> m, st |-> t] : m \in MetaResponses, t \in {StInOrder(g)} }

\* week passed to the constructor: not given (None), 0, the first week or a later one
WeekArgs == { [given |-> FALSE, n |-> 0] } \cup { [given |-> TRUE, n |-> k] : k \in {0, 1, MaxWeek} }

\* datetime.today(): some days of the 2024 season
Todays == { SeasonStart + 3, SeasonStart + 10 }

RECURSIVE Pads(_)
Pads(n) ==
    IF n = 0 THEN { <<>> }
    ELSE Pads(n - 1) \cup { Append(q, c) : q \in { r \in Pads(n - 1) : Len(r) = n - 1 },
                                           c \in Whitespace }

CoreTexts ==
    { <<"N", "/", "A">>, <<"N", "o", "n", "e">>, <<>>, <<"0">>, <<"4", "2">>,
      <<"D", "o", "m", "e">>, <<"3", " ", "5">> }

CleanScalars ==
    { NoneV, NaNV } \cup { IntV(k) : k \in {-3, 0, 7} } \cup { FloatV(k) : k \in {-3, 0, 7} }
    \cup { StrV(l \o c \o r) : l \in Pads(MaxPad), c \in CoreTexts, r \in Pads(MaxPad) }

\* the values clean_value is applied to: scalars, and Series holding one
CleanInputs ==
    CleanScalars \cup { SeriesV(<<>>) } \cup { SeriesV(<<x>>) : x \in CleanScalars }

ExpectedTypes == { "unset", "string" }

\* ------------------------------------------------------------------ state
VARIABLES
    pc,               \* "new", "constructed", "loop", "returned", "init_raised", "loop_raised"
    week_arg,         \* the week argument of __init__
    attrs,            \* the attributes of self assigned so far
    week, current_season, season_start, team_stats_list,
    all_games,        \* fetch_games: the season's rows
    games_in_week,    \* fetch_games: the filtered rows
    idx,              \* fetch_games: rows of games_in_week whose process_game returned
    log,              \* per returned process_game: the source's answers, and
                      \* the length of team_stats_list before and after
    displayed,        \* display_stats was called
    csv,              \* the rows display_stats wrote
    cv_pc, cv_x, cv_t, cv_y, cv_z   \* clean_value applied once and twice to cv_x

vars == << pc, week_arg, attrs, week, current_season, season_start, team_stats_list,
           all_games, games_in_week, idx, log, displayed, csv,
           cv_pc, cv_x, cv_t, cv_y, cv_z >>

objvars == << week_arg, attrs, week, current_season, season_start, team_stats_list >>
fetchvars == << all_games, games_in_week, idx, log, displayed, csv >>
cvvars == << cv_pc, cv_x, cv_t, cv_y, cv_z >>

NoObject ==
    /\ pc = "new"
    /\ week_arg = [given |-> FALSE, n |-> 0]
    /\ attrs = {}
    /\ week = 0
    /\ current_season = 0
    /\ season_start = 0
    /\ team_stats_list = <<>>
    /\ all_games = <<>>
    /\ games_in_week = <<>>
    /\ idx = 0
    /\ log = <<>>
    /\ displayed = FALSE
    /\ csv = <<>>

Init ==
    /\ NoObject
    /\ cv_pc = "idle"
    /\ cv_x = NoneV
    /\ cv_t = "unset"
    /\ cv_y = NoneV
    /\ cv_z = NoneV

\* NFLGameStats.__init__(week): line 9 runs before season_start is assigned
Construct ==
    /\ pc = "new"
    /\ \E w \in WeekArgs, today \in Todays :
          LET cur == get_current_week({}, season_start, today)
              truthy == w.given /\ w.n # 0
          IN  /\ week_arg' = w
              /\ IF ~truthy /\ cur.exc
                 THEN /\ pc' = "init_raised"
                      /\ UNCHANGED << attrs, week, current_season, season_start, team_stats_list >>
                 ELSE /\ pc' = "constructed"
                      /\ week' = IF truthy THEN w.n ELSE cur.week
                      /\ current_season' = DateOf(today).y
                      /\ team_stats_list' = <<>>
                      /\ season_start' = SeasonStart
                      /\ attrs' = {"week", "current_season", "team_stats_list", "season_start"}
    /\ UNCHANGED fetchvars
    /\ UNCHANGED cvvars

\* fetch_games, _gamelogs raises: print and return
FetchGamesError ==
    /\ pc = "constructed"
    /\ pc' = "returned"
    /\ UNCHANGED objvars
    /\ UNCHANGED fetchvars
    /\ UNCHANGED cvvars

\* fetch_games up to the loop: the schedule is fetched and filtered
FetchGames ==
    /\ pc = "constructed"
    /\ LET start_date == get_week_start_date(season_start, week)
       IN  \E sched \in Schedules(start_date) :
              /\ all_games' = sched
              /\ games_in_week' = games_in_week_of(sched, start_date)
              /\ pc' = IF games_in_week' = <<>> THEN "returned" ELSE "loop"
    /\ UNCHANGED objvars
    /\ UNCHANGED << idx, log, displayed, csv >>
    /\ UNCHANGED cvvars

\* one iteration of the loop of fetch_games: process_game(game); an exception
\* it raises is caught nowhere and leaves fetch_games
ProcessGame ==
    /\ pc = "loop"
    /\ idx < Len(games_in_week)
    /\ LET game == games_in_week[idx + 1]
       IN  \E resp \in Responses(game) :
              LET r == process_game(team_stats_list, game, resp)
              IN  IF r.exc
                  THEN /\ pc' = "loop_raised"
                       /\ team_stats_list' = r.list
                       /\ UNCHANGED << idx, log >>
                  ELSE /\ pc' = "loop"
                       /\ team_stats_list' = r.list
                       /\ idx' = idx + 1
                       /\ log' = Append(log, [ resp |-> resp,
                                               at |-> Len(team_stats_list),
                                               n |-> Len(r.list) - Len(team_stats_list) ])
    /\ UNCHANGED << week_arg, attrs, week, current_season, season_start >>
    /\ UNCHANGED << all_games, games_in_week, displayed, csv >>
    /\ UNCHANGED cvvars

\* the end of fetch_games: display_stats()
DisplayStats ==
    /\ pc = "loop"
    /\ idx = Len(games_in_week)
    /\ pc' = "returned"
    /\ displayed' = TRUE
    /\ csv' = team_stats_list
    /\ UNCHANGED objvars
    /\ UNCHANGED << all_games, games_in_week, idx, log >>
    /\ UNCHANGED cvvars

Next ==
    \/ Construct
    \/ FetchGamesError
    \/ FetchGames
    \/ ProcessGame
    \/ DisplayStats

Spec == Init /\ [][Next]_vars

\* ------------------------------------------- clean_value as a pure function
InitClean ==
    /\ NoObject
    /\ cv_pc = "input"
    /\ cv_x \in CleanInputs
    /\ cv_t \in ExpectedTypes
    /\ cv_y = NoneV
    /\ cv_z = NoneV

CleanOnce ==
    /\ cv_pc = "input"
    /\ cv_pc' = "once"
    /\ cv_y' = clean_value(cv_x, cv_t)
    /\ UNCHANGED << cv_x, cv_t, cv_z >>
    /\ UNCHANGED << pc, objvars, fetchvars >>

CleanAgain ==
    /\ cv_pc = "once"
    /\ cv_pc' = "twice"
    /\ cv_z' = clean_value(cv_y, cv_t)
    /\ UNCHANGED << cv_x, cv_t, cv_y >>
    /\ UNCHANGED << pc, objvars, fetchvars >>

NextClean ==
    \/ CleanOnce
    \/ CleanAgain

SpecClean == InitClean /\ [][NextClean]_vars

\* ------------------------------------------------------------------ claims
\* the record pairs of team_stats_list
Pairs == 1..(Len(team_stats_list) \div 2)
Primary(k) == team_stats_list[2 * k - 1]
Mirrored(k) == team_stats_list[2 * k]

\* the game and the records of the i-th returned process_game
GameOf(i) == games_in_week[i]
Appended(i) == log[i].n = 2
Rec1(i) == team_stats_list[log[i].at + 1]
Rec2(i) == team_stats_list[log[i].at + 2]

\* C1: mirror invariant: the two records process_stats appends for a game
\* carry each other's team, score and location, for every names, location
\* codes and scores.
C1_Mirror ==
    \A k \in Pairs :
        /\ Primary(k)["team"] = Mirrored(k)["opponent"]
        /\ Mirrored(k)["team"] = Primary(k)["opponent"]
        /\ Primary(k)["tm_score"] = Mirrored(k)["opp_score"]
        /\ Primary(k)["opp_score"] = Mirrored(k)["tm_score"]
        /\ Primary(k)["tm_location"] = Mirrored(k)["opp_location"]
        /\ Primary(k)["opp_location"] = Mirrored(k)["tm_location"]

C1_Witness ==
    \E k \in Pairs :
        /\ Primary(k)["tm_location"] = H
        /\ Primary(k)["opp_location"] = A
        /\ Primary(k)["tm_score"] # Primary(k)["opp_score"]
        /\ Primary(k)["team"] # Primary(k)["opponent"]

\* C2: a failure while processing one game never aborts the batch: no
\* exception leaves the loop of fetch_games, so the later games are processed
\* and display_stats is reached.
C2_NeverAborts == pc # "loop_raised"

\* C3: spread assignment: a home ('H') primary team gets metadata.tm_spread
\* and its opponent metadata.opp_spread, any other location code (away,
\* neutral) gets them inverted, and the mirrored record carries the primary
\* record's spreads swapped.
C3_Spreads ==
    \A i \in 1..Len(log) :
        Appended(i) =>
            LET md == extract_game_metadata(log[i].resp.md.data)
            IN  /\ GameOf(i)["tm_location"] = H =>
                      /\ Rec1(i)["tm_spread"] = md["tm_spread"]
                      /\ Rec1(i)["opp_spread"] = md["opp_spread"]
                /\ GameOf(i)["tm_location"] # H =>
                      /\ Rec1(i)["tm_spread"] = md["opp_spread"]
                      /\ Rec1(i)["opp_spread"] = md["tm_spread"]
                /\ Rec2(i)["tm_spread"] = Rec1(i)["opp_spread"]
                /\ Rec2(i)["opp_spread"] = Rec1(i)["tm_spread"]

C3_Witness ==
    \E i \in 1..Len(log), j \in 1..Len(log) :
        /\ Appended(i) /\ GameOf(i)["tm_location"] = N
        /\ Rec1(i)["tm_spread"] # Rec1(i)["opp_spread"]
        /\ Appended(j) /\ GameOf(j)["tm_location"] = H

\* the raw rows of the answer are the game's two teams, in either order
IdentifiedByMarket(resp, g) ==
    /\ resp.md.ok /\ resp.st.ok
    /\ "market" \in resp.st.columns
    /\ Len(resp.st.rows) = 2
    /\ g["tm_name"] # g["opp_name"]
    /\ \/ resp.st.rows[1]["market"] = g["tm_name"] /\ resp.st.rows[2]["market"] = g["opp_name"]
       \/ resp.st.rows[1]["market"] = g["opp_name"] /\ resp.st.rows[2]["market"] = g["tm_name"]

RowOf(resp, name) ==
    IF resp.st.rows[1]["market"] = name THEN resp.st.rows[1] ELSE resp.st.rows[2]

CarriesRow(rec, row) ==
    \A k \in StatKeys : rec[k] = clean_value(get(row, k, StatDefault(k)), "unset")

\* C4: team resolution: when the two raw rows are identified by 'market' as
\* the game's two teams, in either order, the record of tm_name carries the
\* statistics of the row whose market is tm_name, and the record of opp_name
\* those of the row whose market is opp_name.
C4_Resolution ==
    \A i \in 1..Len(log) :
        (Appended(i) /\ IdentifiedByMarket(log[i].resp, GameOf(i))) =>
            \A rec \in {Rec1(i), Rec2(i)}, name \in {GameOf(i)["tm_name"], GameOf(i)["opp_name"]} :
                rec["team"] = name => CarriesRow(rec, RowOf(log[i].resp, name))

C4_Witness ==
    \E i \in 1..Len(log) :
        /\ Appended(i) /\ IdentifiedByMarket(log[i].resp, GameOf(i))
        /\ log[i].resp.st.rows[1]["market"] = GameOf(i)["opp_name"]
        /\ Rec1(i)["rush_att"] # Rec2(i)["rush_att"]

\* the raw rows cannot be matched to the expected teams
Unresolvable(resp, g) ==
    /\ resp.md.ok /\ resp.st.ok
    /\ \/ "market" \notin resp.st.columns
       \/ \A j \in 1..Len(resp.st.rows) :
             resp.st.rows[j]["market"] \notin {g["tm_name"], g["opp_name"]}

\* C5: team-resolution failure is a skip: when the raw rows cannot be matched
\* to the expected teams (no 'market' column, or no row's market is an
\* expected team) the game appends no record to team_stats_list.
C5_ResolutionFailureSkips ==
    \A i \in 1..Len(log) : Unresolvable(log[i].resp, GameOf(i)) => log[i].n = 0

MissingLike(v) == v.t \in {"none", "nan"} \/ (v.t = "str" /\ v.s \in MissingMarkers)

\* C6: no-missing invariant: no statistic or metadata field of a record of
\* team_stats_list is None, NaN, "N/A", "None" or ""; numeric fields are
\* numbers and roof_type / surface_type are strings.
C6_NoMissing ==
    \A r \in 1..Len(team_stats_list) :
        LET rec == team_stats_list[r]
        IN  /\ \A k \in StatKeys \cup MetaKeys : ~MissingLike(rec[k])
            /\ \A k \in NumericStatKeys \cup NumericMetaKeys : IsNumber(rec[k])
            /\ \A k \in StringMetaKeys : rec[k].t = "str"

\* C7: cleaner idempotence: clean_value(clean_value(x, t), t) equals
\* clean_value(x, t) for every input x and expected type t.
C7_Idempotent == cv_pc = "twice" => PyEq(cv_z, cv_y)

\* both extractions of the game succeeded
ExtractionSucceeded(resp) ==
    resp.md.ok /\ resp.st.ok /\ "market" \in resp.st.columns

IsPairOf(g, r1, r2) ==
    /\ r1["team"] = g["tm_name"] /\ r1["opponent"] = g["opp_name"]
    /\ r1["tm_score"] = g["tm_score"] /\ r1["opp_score"] = g["opp_score"]
    /\ r1["tm_location"] = g["tm_location"]
    /\ r2["team"] = g["opp_name"] /\ r2["opponent"] = g["tm_name"]
    /\ r2["tm_score"] = g["opp_score"] /\ r2["opp_score"] = g["tm_score"]
    /\ r2["tm_location"] = g["opp_location"]

\* the records from position pos on are the pairs of games i, i+1, ... of the log
RECURSIVE PairsFrom(_, _)
PairsFrom(i, pos) ==
    IF i > Len(log) THEN pos = Len(team_stats_list)
    ELSE IF ExtractionSucceeded(log[i].resp)
         THEN /\ pos + 2 <= Len(team_stats_list)
              /\ IsPairOf(GameOf(i), team_stats_list[pos + 1], team_stats_list[pos + 2])
              /\ PairsFrom(i + 1, pos + 2)
         ELSE PairsFrom(i + 1, pos)

\* C8: after any prefix of the in-window games has been processed,
\* team_stats_list is the concatenation, in schedule order, of one (primary,
\* mirrored) pair per game whose extraction succeeded; a failed game
\* contributes nothing, and each game is processed once.
C8_ContentAndOrder ==
    /\ Len(log) = idx
    /\ idx <= Len(games_in_week)
    /\ PairsFrom(1, 0)

C8_Witness ==
    /\ Len(log) = 2
    /\ ExtractionSucceeded(log[1].resp)
    /\ ExtractionSucceeded(log[2].resp)
    /\ GameOf(1)["tm_name"] # GameOf(2)["tm_name"]
    /\ Len(team_stats_list) = 4
    /\ team_stats_list[1]["team"] = GameOf(1)["tm_name"]
    /\ team_stats_list[3]["team"] = GameOf(2)["tm_name"]

\* a game whose extraction failed was skipped and the next one appended
C8_SkipSeen ==
    /\ Len(log) = 2
    /\ ~ExtractionSucceeded(log[1].resp)
    /\ ExtractionSucceeded(log[2].resp)
    /\ Len(team_stats_list) = 2

\* the rows dated Thursday to Monday of the week
InWindow(g) ==
    \E k \in 0..4 : g["event_date"].s = strftime(SeasonStart + 7 * (week - 1) + k)

\* C9: window boundary: the week starts at season_start + 7*(w-1) days and
\* fetch_games selects exactly the rows dated start .. start+4, in order;
\* only those are processed.
C9_Window ==
    pc \in {"loop", "returned", "loop_raised"} =>
        /\ games_in_week = SelectSeq(all_games, InWindow)
        /\ idx <= Len(games_in_week)
        /\ (displayed => idx = Len(games_in_week))

C9_Witness ==
    /\ displayed
    /\ week = MaxWeek
    /\ Len(all_games) = 2
    /\ all_games[1]["event_date"].s = strftime(SeasonStart + 7 * (week - 1) + 4)
    /\ all_games[2]["event_date"].s = strftime(SeasonStart + 7 * (week - 1) + 5)
    /\ Len(games_in_week) = 1

\* C10: constructing NFLGameStats with no week (None or 0) completes and
\* sets week to the current NFL week.
C10_DefaultWeek ==
    (pc # "new" /\ ~(week_arg.given /\ week_arg.n # 0)) =>
        /\ pc # "init_raised"
        /\ "week" \in attrs
        /\ \E today \in Todays : week = ((today - SeasonStart) \div 7) + 1

====
